---- MODULE Spec2Model ----
(***************************************************************************)
(* SpekCheck, src/create-spectrum.py: wavelength2rgb(nm, gamma) maps an    *)
(* array of wavelengths to RGB triples, main(fname) renders the visible    *)
(* range 380..779 nm to an image file.                                     *)
(*                                                                         *)
(* Arrays are a shape (tuple of dimension sizes) and their data in         *)
(* row-major order.  A wavelength is an integer count of 1/Resolution nm.  *)
(* A floating point value is the exact rational <<n, d>> it approximates   *)
(* (d > 0, lowest terms); <<1, 0>> is inf and <<0, 0>> is nan.             *)
(***************************************************************************)
EXTENDS Integers, Sequences, FiniteSets, TLC

VARIABLES
    pc,          \* position in the program
    entry,       \* "main" (the script) or "direct" (another caller of wavelength2rgb)
    fname,       \* main's argument
    inShape,     \* shape of the array object the caller passes
    nm,          \* data of the array nm
    nmShape,     \* shape of wavelength2rgb's local nm
    gamma,       \* the gamma argument, a rational
    rgb,         \* data of rgb: one triple per element of nm
    rgbShape,    \* shape of rgb, <<>> while it is not allocated
    mask,        \* the current boolean mask, one entry per element of nm
    band,        \* the next colour band block to run, 1..6 (7: all done)
    hits,        \* per element, the band blocks whose mask selected it
    factor,      \* data of factor
    factorShape, \* shape of factor, <<>> while it is not allocated
    error,       \* the exception that ended the program, or "none"
    files,       \* the images written so far
    calls        \* number of calls of wavelength2rgb

vars == <<pc, entry, fname, inShape, nm, nmShape, gamma, rgb, rgbShape, mask,
          band, hits, factor, factorShape, error, files, calls>>

----------------------------------------------------------------------------
(* Bounds of the model *)

Resolution == 2   \* grid points per nm
Margin == 5       \* nm swept below 380 and above 780
MaxRank == 3      \* largest rank of an input array
MaxDim == 2       \* largest size of one dimension
MaxSize == 4      \* largest number of elements of an enumerated array

----------------------------------------------------------------------------
(* Exact arithmetic on the values of the floating point expressions *)

RECURSIVE GCD(_, _)
GCD(a, b) == IF b = 0 THEN a ELSE GCD(b, a % b)

Abs(a) == IF a < 0 THEN -a ELSE a

Rat(n, d) ==
    LET g == GCD(Abs(n), Abs(d))
        s == IF d < 0 THEN -1 ELSE 1
    IN  <<(s * n) \div g, (s * d) \div g>>

Zero == <<0, 1>>
One == <<1, 1>>
Inf == <<1, 0>>
NaN == <<0, 0>>

RAdd(x, y) == Rat(x[1] * y[2] + y[1] * x[2], x[2] * y[2])
RMul(x, y) == Rat(x[1] * y[1], x[2] * y[2])
RLt(x, y) == x[1] * y[2] < y[1] * x[2]
RLe(x, y) == x[1] * y[2] <= y[1] * x[2]

\* the wavelength k nm on the grid
Nm(k) == k * Resolution

RECURSIVE Prod(_)
Prod(s) == IF s = <<>> THEN 1 ELSE Head(s) * Prod(Tail(s))

----------------------------------------------------------------------------
(* wavelength2rgb: the shape handling *)

\* mutant: the reshape of a one-dimensional nm is left out
Reshaped_Kept(shape) == shape

\* nm.ndim == 1: nm.reshape((1, nm.size)), any other shape is kept
Reshaped(shape) == IF Len(shape) = 1 THEN <<1, Prod(shape)>> ELSE shape

\* mutant: the rank test is off by one
RankRejected_Above3(shape) == Len(shape) > 3

\* nm.ndim > 2 raises RuntimeError (ndim == 1 is tested first)
RankRejected(shape) == Len(shape) # 1 /\ Len(shape) > 2

\* numpy.zeros(list(nm.shape) + [3])
ZerosShape(shape) == shape \o <<3>>

----------------------------------------------------------------------------
(* wavelength2rgb: the six colour band blocks *)

\* mask = (nm >= 380) & (nm < 440)
Mask1(w) == w >= Nm(380) /\ w < Nm(440)

\* mutant: the upper edge of the second band is closed
Mask2_Closed490(w) == w >= Nm(440) /\ w <= Nm(490)

\* mask = (nm >= 440) & (nm < 490)
Mask2(w) == w >= Nm(440) /\ w < Nm(490)

\* mask = (nm >= 490) & (nm < 510)
Mask3(w) == w >= Nm(490) /\ w < Nm(510)

\* mask = (nm >= 510) & (nm < 580)
Mask4(w) == w >= Nm(510) /\ w < Nm(580)

\* mask = (nm >= 580) & (nm < 645)
Mask5(w) == w >= Nm(580) /\ w < Nm(645)

\* mutant: the upper edge of the last band is closed
Mask6_Closed780(w) == w >= Nm(645) /\ w <= Nm(780)

\* mask = (nm >= 645) & (nm < 780)
Mask6(w) == w >= Nm(645) /\ w < Nm(780)

\* the mask of block k, for one element w
BandMask(k, w) ==
    CASE k = 1 -> Mask1(w)
      [] k = 2 -> Mask2(w)
      [] k = 3 -> Mask3(w)
      [] k = 4 -> Mask4(w)
      [] k = 5 -> Mask5(w)
      [] k = 6 -> Mask6(w)

\* The assignments rgb[mask, c] = ... of a block to a selected element w whose
\* triple is old; a channel whose assignment is commented out keeps its value.

\* mutant: the minus sign of the red ramp is lost
Assign1_SignSlip(w, old) == <<Rat(w - Nm(440), 60 * Resolution), old[2], One>>

\* rgb[mask, 0] = - (nm[mask] - 440) / 60.0; rgb[mask, 2] = 1.0
Assign1(w, old) == <<Rat(-(w - Nm(440)), 60 * Resolution), old[2], One>>

\* mutant: the green ramp is divided by the width of the wrong band
Assign2_Ramp60(w, old) == <<old[1], Rat(w - Nm(440), 60 * Resolution), One>>

\* rgb[mask, 1] = (nm[mask] - 440) / 50.0; rgb[mask, 2] = 1.0
Assign2(w, old) == <<old[1], Rat(w - Nm(440), 50 * Resolution), One>>

\* rgb[mask, 1] = 1.0; rgb[mask, 2] = -(nm[mask] - 510) / 20.0
Assign3(w, old) == <<old[1], One, Rat(-(w - Nm(510)), 20 * Resolution)>>

\* rgb[mask, 0] = (nm[mask] - 510) / 70.0; rgb[mask, 1] = 1.0
Assign4(w, old) == <<Rat(w - Nm(510), 70 * Resolution), One, old[3]>>

\* rgb[mask, 0] = 1.0; rgb[mask, 1] = -(nm[mask] - 645) / 65.0
Assign5(w, old) == <<One, Rat(-(w - Nm(645)), 65 * Resolution), old[3]>>

\* mutant: the last band writes the green channel
Assign6_Green(w, old) == <<old[1], One, old[3]>>

\* rgb[mask, 0] = 1.0
Assign6(w, old) == <<One, old[2], old[3]>>

\* the assignments of block k
BandAssign(k, w, old) ==
    CASE k = 1 -> Assign1(w, old)
      [] k = 2 -> Assign2(w, old)
      [] k = 3 -> Assign3(w, old)
      [] k = 4 -> Assign4(w, old)
      [] k = 5 -> Assign5(w, old)
      [] k = 6 -> Assign6(w, old)

----------------------------------------------------------------------------
(* wavelength2rgb: the intensity fall-off *)

\* mask = (nm >= 380) & (nm < 420)
LowMask(w) == w >= Nm(380) /\ w < Nm(420)

\* mutant: the floor of 0.3 is left out
LowFactor_NoFloor(w) == RMul(Rat(7, 10), Rat(w - Nm(380), 40 * Resolution))

\* 0.3 + 0.7 * (nm[mask] - 380) / 40.0
LowFactor(w) ==
    RAdd(Rat(3, 10), RMul(Rat(7, 10), Rat(w - Nm(380), 40 * Resolution)))

\* mutant: the upper edge of the fall-off is open
HighMask_Open780(w) == w > Nm(700) /\ w < Nm(780)

\* mask = (nm > 700) & (nm <= 780)
HighMask(w) == w > Nm(700) /\ w <= Nm(780)

\* 0.3 + 0.7 * (780 - nm[mask]) / 80.0
HighFactor(w) ==
    RAdd(Rat(3, 10), RMul(Rat(7, 10), Rat(Nm(780) - w, 80 * Resolution)))

\* factor of one element: ones, then the two masked assignments in order
FactorOf(w) ==
    LET f0 == One
        f1 == IF LowMask(w) THEN LowFactor(w) ELSE f0
    IN  IF HighMask(w) THEN HighFactor(w) ELSE f1

\* factor.reshape(list(factor.shape) + [1])
FactorReshaped(shape) == shape \o <<1>>

\* rgb *= factor: the factor of an element scales its three channels
Scaled(t, f) == <<RMul(t[1], f), RMul(t[2], f), RMul(t[3], f)>>

----------------------------------------------------------------------------
(* wavelength2rgb: the gamma correction                                    *)
(* A power is [b |-> base, e |-> exponent].  A power whose value is a      *)
(* rational, inf or nan is reduced to that value with exponent One; an     *)
(* irrational power stays as its base and exponent.                        *)

Exact(x) == [b |-> x, e |-> One]

IsInteger(g) == g[2] = 1

\* x ** g for a finite rational x, as numpy's float power
Pow(x, g) ==
    CASE g = Zero -> Exact(One)
      [] g # Zero /\ x = One -> Exact(One)
      [] g # Zero /\ x = Zero -> IF RLt(Zero, g) THEN Exact(Zero) ELSE Exact(Inf)
      [] g # Zero /\ x # One /\ RLt(x, Zero) /\ ~IsInteger(g) -> Exact(NaN)
      [] g = One /\ x # One /\ x # Zero -> Exact(x)
      [] g = <<-1, 1>> /\ x # One /\ x # Zero -> Exact(Rat(x[2], x[1]))
      [] OTHER -> [b |-> x, e |-> g]

PowTriple(t, g) == <<Pow(t[1], g), Pow(t[2], g), Pow(t[3], g)>>

\* order of the values of powers
IsExact(v) == v.e = One
\* 0 <= v <= 1
InUnit(v) ==
    IF IsExact(v)
    THEN v.b[2] # 0 /\ RLe(Zero, v.b) /\ RLe(v.b, One)
    ELSE /\ RLt(Zero, v.b)
         /\ IF RLt(Zero, v.e) THEN RLe(v.b, One) ELSE RLe(One, v.b)
\* v < w, for two powers of non-negative bases by one positive exponent
PowLess(v, w) ==
    CASE IsExact(v) /\ IsExact(w) -> RLt(v.b, w.b)
      [] ~IsExact(v) /\ ~IsExact(w) -> RLt(v.b, w.b)
      [] IsExact(v) /\ ~IsExact(w) ->
            \/ v.b = Zero
            \/ (v.b = One /\ RLt(One, w.b))
      [] ~IsExact(v) /\ IsExact(w) ->
            \/ (w.b = One /\ RLt(v.b, One))
            \/ w.b = Inf

----------------------------------------------------------------------------
(* main *)

\* mutant: the range includes 780
Domain_Inclusive == [i \in 1 .. (780 - 380 + 1) |-> Nm(380 + i - 1)]

\* numpy.array(range(380, 780))
Domain == [i \in 1 .. (780 - 380) |-> Nm(380 + i - 1)]

\* gamma=0.8
DefaultGamma == <<4, 5>>

\* scipy.misc.imsave(fname, arr): an array of shape (rows, columns, 3) is
\* saved as a colour image of that many rows and columns
Image(path, shape, data) ==
    [path |-> path,
     mode |-> IF Len(shape) = 3 /\ shape[3] = 3 THEN "RGB" ELSE "L",
     height |-> shape[1],
     width |-> shape[2],
     pixels |-> data]

----------------------------------------------------------------------------
(* The calls the model makes *)

Gammas == {<<-1, 1>>, Zero, DefaultGamma, One}

Paths == {"spectrum.png", "out/spectrum.png"}

\* every grid point from Margin nm below 380 to Margin nm above 780
Grid == Nm(380 - Margin) .. Nm(780 + Margin)

\* just below 380, a band edge, inside the upper fall-off, the upper limit
Samples == {Nm(380) - 1, Nm(440), Nm(750), Nm(780)}

Scenario == <<Nm(380), Nm(480), Nm(550), Nm(650), Nm(750)>>

Shapes ==
    {s \in UNION {[1 .. r -> 1 .. MaxDim] : r \in 0 .. MaxRank} : Prod(s) <= MaxSize}

Arrays ==
    {[shape |-> <<1>>, data |-> <<w>>] : w \in Grid}
        \cup UNION {{[shape |-> s, data |-> d] : d \in [1 .. Prod(s) -> Samples]} :
                        s \in Shapes}
        \cup {[shape |-> <<Len(Scenario)>>, data |-> Scenario]}

Elements == 1 .. Len(nm)

----------------------------------------------------------------------------
(* The program *)

InitCommon ==
    /\ nmShape = <<>>
    /\ gamma = NaN
    /\ rgb = <<>>
    /\ rgbShape = <<>>
    /\ mask = <<>>
    /\ band = 0
    /\ hits = <<>>
    /\ factor = <<>>
    /\ factorShape = <<>>
    /\ error = "none"
    /\ files = {}
    /\ calls = 0

\* python create-spectrum.py fname
InitMain ==
    /\ pc = "main"
    /\ entry = "main"
    /\ fname \in Paths
    /\ inShape = <<>>
    /\ nm = <<>>
    /\ InitCommon

\* a caller that holds an array and is about to call wavelength2rgb
InitDirect ==
    /\ pc = "caller"
    /\ entry = "direct"
    /\ fname = ""
    /\ \E a \in Arrays : inShape = a.shape /\ nm = a.data
    /\ InitCommon

Init == InitMain \/ InitDirect

\* nm = numpy.array(range(380, 780))
MainBuild ==
    /\ pc = "main"
    /\ nm' = Domain
    /\ inShape' = <<Len(Domain)>>
    /\ pc' = "main_call"
    /\ UNCHANGED <<entry, fname, nmShape, gamma, rgb, rgbShape, mask, band, hits,
                   factor, factorShape, error, files, calls>>

\* rgb = wavelength2rgb(nm)
MainCall ==
    /\ pc = "main_call"
    /\ gamma' = DefaultGamma
    /\ nmShape' = inShape
    /\ calls' = calls + 1
    /\ pc' = "check"
    /\ UNCHANGED <<entry, fname, inShape, nm, rgb, rgbShape, mask, band, hits,
                   factor, factorShape, error, files>>

\* wavelength2rgb(nm, gamma) from another caller
DirectCall ==
    /\ pc = "caller"
    /\ \E g \in Gammas : gamma' = g
    /\ nmShape' = inShape
    /\ calls' = calls + 1
    /\ pc' = "check"
    /\ UNCHANGED <<entry, fname, inShape, nm, rgb, rgbShape, mask, band, hits,
                   factor, factorShape, error, files>>

\* raise RuntimeError('NM has more than 2 dimensions')
ShapeError ==
    /\ pc = "check"
    /\ RankRejected(nmShape)
    /\ error' = "RuntimeError"
    /\ pc' = "raised"
    /\ UNCHANGED <<entry, fname, inShape, nm, nmShape, gamma, rgb, rgbShape, mask,
                   band, hits, factor, factorShape, files, calls>>

\* the if / elif falls through, nm reshaped when it has one dimension
ShapeOk ==
    /\ pc = "check"
    /\ ~RankRejected(nmShape)
    /\ nmShape' = Reshaped(nmShape)
    /\ pc' = "alloc"
    /\ UNCHANGED <<entry, fname, inShape, nm, gamma, rgb, rgbShape, mask, band,
                   hits, factor, factorShape, error, files, calls>>

\* rgb = numpy.zeros(list(nm.shape) + [3])
Alloc ==
    /\ pc = "alloc"
    /\ rgb' = [i \in Elements |-> <<Zero, Zero, Zero>>]
    /\ rgbShape' = ZerosShape(nmShape)
    /\ hits' = [i \in Elements |-> {}]
    /\ band' = 1
    /\ pc' = "bands"
    /\ UNCHANGED <<entry, fname, inShape, nm, nmShape, gamma, mask, factor,
                   factorShape, error, files, calls>>

\* one colour band block: its mask, then its masked assignments
Band ==
    /\ pc = "bands"
    /\ LET m == [i \in Elements |-> BandMask(band, nm[i])]
       IN  /\ mask' = m
           /\ rgb' = [i \in Elements |->
                        IF m[i] THEN BandAssign(band, nm[i], rgb[i]) ELSE rgb[i]]
           /\ hits' = [i \in Elements |->
                        IF m[i] THEN hits[i] \cup {band} ELSE hits[i]]
    /\ band' = band + 1
    /\ pc' = IF band = 6 THEN "factor" ELSE "bands"
    /\ UNCHANGED <<entry, fname, inShape, nm, nmShape, gamma, rgbShape, factor,
                   factorShape, error, files, calls>>

\* factor = numpy.ones(nm.shape), the two masked assignments, the reshape
Factor ==
    /\ pc = "factor"
    /\ factor' = [i \in Elements |-> FactorOf(nm[i])]
    /\ mask' = [i \in Elements |-> HighMask(nm[i])]
    /\ factorShape' = FactorReshaped(nmShape)
    /\ pc' = "scale"
    /\ UNCHANGED <<entry, fname, inShape, nm, nmShape, gamma, rgb, rgbShape, band,
                   hits, error, files, calls>>

\* rgb *= factor
Scale ==
    /\ pc = "scale"
    /\ rgb' = [i \in Elements |-> Scaled(rgb[i], factor[i])]
    /\ pc' = "gamma"
    /\ UNCHANGED <<entry, fname, inShape, nm, nmShape, gamma, rgbShape, mask, band,
                   hits, factor, factorShape, error, files, calls>>

\* rgb **= gamma; return rgb
Gamma ==
    /\ pc = "gamma"
    /\ rgb' = [i \in Elements |-> PowTriple(rgb[i], gamma)]
    /\ pc' = IF entry = "main" THEN "imsave" ELSE "returned"
    /\ UNCHANGED <<entry, fname, inShape, nm, nmShape, gamma, rgbShape, mask, band,
                   hits, factor, factorShape, error, files, calls>>

\* scipy.misc.imsave(fname, rgb) writes the file
ImsaveOk ==
    /\ pc = "imsave"
    /\ files' = files \cup {Image(fname, rgbShape, rgb)}
    /\ pc' = "done"
    /\ UNCHANGED <<entry, fname, inShape, nm, nmShape, gamma, rgb, rgbShape, mask,
                   band, hits, factor, factorShape, error, calls>>

\* scipy.misc.imsave(fname, rgb) cannot write to the path
ImsaveFail ==
    /\ pc = "imsave"
    /\ error' = "IOError"
    /\ pc' = "raised"
    /\ UNCHANGED <<entry, fname, inShape, nm, nmShape, gamma, rgb, rgbShape, mask,
                   band, hits, factor, factorShape, files, calls>>

Next ==
    \/ MainBuild
    \/ MainCall
    \/ DirectCall
    \/ ShapeError
    \/ ShapeOk
    \/ Alloc
    \/ Band
    \/ Factor
    \/ Scale
    \/ Gamma
    \/ ImsaveOk
    \/ ImsaveFail

Spec == Init /\ [][Next]_vars

----------------------------------------------------------------------------
(* Properties *)

\* wavelength2rgb has returned its array to the caller
Returned ==
    \/ pc \in {"returned", "imsave", "done"}
    \/ (pc = "raised" /\ error = "IOError")

\* the caller has not yet entered the body of wavelength2rgb
BeforeCheck == pc \in {"main", "main_call", "caller", "check"}

\* rgb holds the band colours, not yet scaled
BandsDone == pc = "factor"

Visible(w) == w >= Nm(380) /\ w < Nm(780)

Black == <<Zero, Zero, Zero>>

\* (0,0,0) in a returned array
BlackOut == <<Exact(Zero), Exact(Zero), Exact(Zero)>>

\* the band table of the specification: the band of a visible wavelength
TableBand(w) ==
    CASE w < Nm(440) -> 1
      [] w >= Nm(440) /\ w < Nm(490) -> 2
      [] w >= Nm(490) /\ w < Nm(510) -> 3
      [] w >= Nm(510) /\ w < Nm(580) -> 4
      [] w >= Nm(580) /\ w < Nm(645) -> 5
      [] w >= Nm(645) -> 6

\* the band table of the specification: R, G, B before factor and gamma
TableRGB(w) ==
    CASE ~Visible(w) -> Black
      [] Visible(w) /\ TableBand(w) = 1 -> <<Rat(Nm(440) - w, Nm(60)), Zero, One>>
      [] Visible(w) /\ TableBand(w) = 2 -> <<Zero, Rat(w - Nm(440), Nm(50)), One>>
      [] Visible(w) /\ TableBand(w) = 3 -> <<Zero, One, Rat(Nm(510) - w, Nm(20))>>
      [] Visible(w) /\ TableBand(w) = 4 -> <<Rat(w - Nm(510), Nm(70)), One, Zero>>
      [] Visible(w) /\ TableBand(w) = 5 -> <<One, Rat(Nm(645) - w, Nm(65)), Zero>>
      [] Visible(w) /\ TableBand(w) = 6 -> <<One, Zero, Zero>>

\* the fall-off table of the specification, over the common denominators
TableFactor(w) ==
    CASE w >= Nm(380) /\ w < Nm(420) -> Rat(Nm(120) + 7 * (w - Nm(380)), Nm(400))
      [] w > Nm(700) /\ w <= Nm(780) -> Rat(Nm(240) + 7 * (Nm(780) - w), Nm(800))
      [] OTHER -> One

\* the colour the specification gives a wavelength under gamma g
TableColour(w, g) == PowTriple(Scaled(TableRGB(w), TableFactor(w)), g)

----------------------------------------------------------------------------
\* C1 as stated: the result of a rank 1 or rank 2 input has the input's shape
\* with a trailing dimension of size 3 appended, (N, 3) for N wavelengths
C1_ShapeAppended ==
    (Returned /\ Len(inShape) \in {1, 2}) => rgbShape = inShape \o <<3>>

\* C1 amended: a rank 1 input of N wavelengths yields shape (1, N, 3), a rank 2
\* input of shape (R, C) yields (R, C, 3), with one triple per wavelength
C1_ShapeOfResult ==
    Returned =>
        /\ Len(inShape) = 1 => rgbShape = <<1, inShape[1], 3>>
        /\ Len(inShape) = 2 => rgbShape = <<inShape[1], inShape[2], 3>>
        /\ Len(rgb) = Prod(inShape)
        /\ \A i \in Elements : Len(rgb[i]) = 3

C1_Witness == pc = "returned" /\ Len(inShape) = 1 /\ inShape[1] > 1

----------------------------------------------------------------------------
\* C2 as stated: an input of any rank other than 1 or 2, rank 0 included, ends
\* in the shape error with nothing allocated or computed
C2_OnlyRank1Or2 ==
    (~BeforeCheck /\ Len(inShape) \notin {1, 2}) =>
        /\ pc = "raised"
        /\ error = "RuntimeError"
        /\ rgbShape = <<>>

\* C2 amended: the shape error is raised exactly for inputs of rank 3 or more,
\* before rgb is allocated and before any mask, band or factor is computed, and
\* no array is returned; an input of rank 0 is not rejected
C2_RankAbove2Rejected ==
    /\ (pc = "raised" /\ error = "RuntimeError") =>
            /\ Len(inShape) > 2
            /\ rgb = <<>> /\ rgbShape = <<>>
            /\ mask = <<>> /\ band = 0 /\ hits = <<>>
            /\ factor = <<>> /\ factorShape = <<>>
    /\ (~BeforeCheck /\ Len(inShape) > 2) =>
            pc = "raised" /\ error = "RuntimeError"
    /\ (~BeforeCheck /\ Len(inShape) <= 2) => error # "RuntimeError"

C2_Witness == pc = "raised" /\ error = "RuntimeError" /\ Len(inShape) = 3

----------------------------------------------------------------------------
\* C3 as stated: an element outside [380,780) is exactly (0,0,0) in the result
\* for every gamma
C3_OutsideBlackAnyGamma ==
    Returned =>
        \A i \in Elements : ~Visible(nm[i]) => rgb[i] = BlackOut

\* C3 amended: an element outside [380,780), nm = 780 included, is exactly
\* (0,0,0) in the result for every gamma > 0
C3_OutsideBlack ==
    (Returned /\ RLt(Zero, gamma)) =>
        \A i \in Elements :
            ~Visible(nm[i]) => rgb[i] = BlackOut

C3_Witness ==
    /\ pc = "returned"
    /\ gamma = DefaultGamma
    /\ \E i \in Elements : nm[i] = Nm(780) /\ factor[i] # One

----------------------------------------------------------------------------
\* every channel of rgb, before gamma, lies in [0,1]
ChannelsInUnit ==
    \A i \in Elements : \A c \in 1 .. 3 :
        RLe(Zero, rgb[i][c]) /\ RLe(rgb[i][c], One)

\* C4 as stated: every channel lies in [0,1] after the band ramps and after the
\* multiplication by the factor, and every entry of the returned array lies in
\* [0,1]
C4_AllInUnit ==
    /\ pc \in {"bands", "factor", "scale", "gamma"} => ChannelsInUnit
    /\ Returned => \A i \in Elements : \A c \in 1 .. 3 : InUnit(rgb[i][c])

\* C4 amended: every channel lies in [0,1] after the band ramps and after the
\* multiplication by the factor, so the base of every power is >= 0, and for
\* gamma >= 0 every entry of the returned array lies in [0,1]
C4_InUnit ==
    /\ pc \in {"bands", "factor", "scale", "gamma"} => ChannelsInUnit
    /\ (Returned /\ RLe(Zero, gamma)) =>
            \A i \in Elements : \A c \in 1 .. 3 : InUnit(rgb[i][c])

C4_Witness ==
    /\ pc = "returned"
    /\ gamma = DefaultGamma
    /\ \E i \in Elements : \E c \in 1 .. 3 : ~IsExact(rgb[i][c])

----------------------------------------------------------------------------
\* C5: the six bands partition [380,780): exactly one band block selects a
\* visible element, the one whose half-open interval holds it (440 is in
\* [440,490) with R=0, G=0, B=1, the grid point below 440 is in [380,440)), and
\* before factor and gamma the element's RGB is that band's formula
C5_BandsPartition ==
    /\ hits # <<>> => \A i \in Elements : Cardinality(hits[i]) <= 1
    /\ band = 7 =>
            \A i \in Elements :
                /\ Visible(nm[i]) => hits[i] = {TableBand(nm[i])}
                /\ nm[i] = Nm(440) => hits[i] = {2}
                /\ nm[i] = Nm(440) - 1 => hits[i] = {1}
    /\ BandsDone =>
            \A i \in Elements :
                /\ Visible(nm[i]) => rgb[i] = TableRGB(nm[i])
                /\ nm[i] = Nm(440) => rgb[i] = <<Zero, Zero, One>>

C5_Witness == BandsDone /\ \E i \in Elements : nm[i] = Nm(440) /\ hits[i] = {2}

----------------------------------------------------------------------------
\* C6: the factor is 0.3 + 0.7*(nm-380)/40 on [380,420), 0.3 + 0.7*(780-nm)/80
\* on (700,780] (1 at 700, 0.3 at 780) and 1 elsewhere, and before gamma is
\* applied the three channels of an element are its band colours times it
C6_Factor ==
    /\ factor # <<>> =>
            \A i \in Elements :
                /\ factor[i] = TableFactor(nm[i])
                /\ nm[i] = Nm(700) => factor[i] = One
                /\ nm[i] = Nm(780) => factor[i] = Rat(3, 10)
                /\ (nm[i] < Nm(380) \/ nm[i] > Nm(780)) => factor[i] = One
                /\ (nm[i] >= Nm(420) /\ nm[i] <= Nm(700)) => factor[i] = One
    /\ pc = "gamma" =>
            \A i \in Elements : \A c \in 1 .. 3 :
                rgb[i][c] = RMul(TableRGB(nm[i])[c], factor[i])

C6_Witness ==
    /\ pc = "gamma"
    /\ \E i \in Elements : nm[i] = Nm(750) /\ rgb[i] = <<factor[i], Zero, Zero>>
    /\ \E i \in Elements : nm[i] = Nm(780)

----------------------------------------------------------------------------
ScenarioReturned == pc = "returned" /\ nm = Scenario /\ gamma = DefaultGamma

\* C7 as stated: for [380,480,550,650,750] and gamma 0.8 the five triples are in
\* [0,1], the triple of 380 has B > 0 and R = 0, the triple of 550 has G = 1
C7_ScenarioRedZero ==
    ScenarioReturned =>
        /\ \A i \in Elements : \A c \in 1 .. 3 : InUnit(rgb[i][c])
        /\ PowLess(Exact(Zero), rgb[1][3])
        /\ rgb[1][1] = Exact(Zero)
        /\ rgb[3][2] = Exact(One)

\* C7 amended: for [380,480,550,650,750] and gamma 0.8 there are five triples in
\* [0,1], the triple of 380 has B > 0 and R = B (0.3 ** 0.8), the triple of 550
\* has G = 1
C7_Scenario ==
    ScenarioReturned =>
        /\ Len(rgb) = 5
        /\ \A i \in Elements : \A c \in 1 .. 3 : InUnit(rgb[i][c])
        /\ PowLess(Exact(Zero), rgb[1][3])
        /\ rgb[1][1] = rgb[1][3]
        /\ rgb[1][3] = [b |-> Rat(3, 10), e |-> DefaultGamma]
        /\ rgb[3][2] = Exact(One)

C7_Witness == ScenarioReturned /\ rgbShape = <<1, 5, 3>>

----------------------------------------------------------------------------
\* the image main wrote, when it wrote one
TheImage == CHOOSE img \in files : TRUE

\* C8: main builds the domain 380, 381, ..., 779 in increasing order (400
\* samples, no 780), calls wavelength2rgb once with the default gamma, and on
\* completion has written one image, to the path it was given, of 400 columns
\* in which column i holds the colour of wavelength 380+i
C8_Main ==
    entry = "main" =>
        /\ pc # "main" =>
                /\ Len(nm) = 400
                /\ \A i \in 0 .. 399 : nm[i + 1] = Nm(380 + i)
        /\ calls = IF pc \in {"main", "main_call"} THEN 0 ELSE 1
        /\ calls = 1 => gamma = DefaultGamma
        /\ pc # "done" => files = {}
        /\ pc = "done" =>
                /\ Cardinality(files) = 1
                /\ TheImage.path = fname
                /\ TheImage.mode = "RGB"
                /\ TheImage.width = 400
                /\ TheImage.height = 1
                /\ Len(TheImage.pixels) = 400
                /\ \A i \in 0 .. 399 :
                        TheImage.pixels[i + 1] = TableColour(Nm(380 + i), DefaultGamma)

C8_Witness == entry = "main" /\ pc = "done" /\ Cardinality(files) = 1

----------------------------------------------------------------------------
Red(t) == t[1]
Green(t) == t[2]
Blue(t) == t[3]

\* C9 as stated: in the image of the default domain the first column has blue
\* greater than red and than green, the last column red greater than green and
\* than blue
C9_FirstBlueLastRed ==
    (entry = "main" /\ pc = "done") =>
        LET first == TheImage.pixels[1]
            last == TheImage.pixels[TheImage.width]
        IN  /\ PowLess(Red(first), Blue(first))
            /\ PowLess(Green(first), Blue(first))
            /\ PowLess(Green(last), Red(last))
            /\ PowLess(Blue(last), Red(last))

\* C9 amended: the first column (380 nm) has blue equal to red and greater than
\* green, the last column (779 nm) has red greater than green and than blue
C9_FirstVioletLastRed ==
    (entry = "main" /\ pc = "done") =>
        LET first == TheImage.pixels[1]
            last == TheImage.pixels[TheImage.width]
        IN  /\ Blue(first) = Red(first)
            /\ PowLess(Green(first), Blue(first))
            /\ PowLess(Green(last), Red(last))
            /\ PowLess(Blue(last), Red(last))

C9_Witness ==
    /\ entry = "main"
    /\ pc = "done"
    /\ nm[1] = Nm(380)
    /\ nm[TheImage.width] = Nm(779)

----------------------------------------------------------------------------
\* the wavelength at which band k ends and band k+1 starts
Boundary(k) ==
    CASE k = 1 -> Nm(440)
      [] k = 2 -> Nm(490)
      [] k = 3 -> Nm(510)
      [] k = 4 -> Nm(580)
      [] k = 5 -> Nm(645)

\* C10: at 440, 490, 510, 580 and 645 the formula of the band that ends there
\* gives the triple the band that starts there assigns, and every element in
\* [380,780) has a channel equal to 1 before the factor is applied
C10_Continuous ==
    BandsDone =>
        \A i \in Elements :
            /\ \A k \in 1 .. 5 :
                    nm[i] = Boundary(k) =>
                        /\ hits[i] = {k + 1}
                        /\ rgb[i] = BandAssign(k, nm[i], Black)
            /\ Visible(nm[i]) => \E c \in 1 .. 3 : rgb[i][c] = One

C10_Witness == BandsDone /\ \E i \in Elements : nm[i] = Boundary(5) /\ hits[i] = {6}

====
